---- MODULE Spec2Model ----
(***************************************************************************)
(* Health-Genie: the index lifecycle and the answers of ChatBot            *)
(* (models/chat.py), the rebuild script and the chat handler.              *)
(*                                                                         *)
(* The state is the part of the filesystem that ChatBot._load_vectorstore  *)
(* reads and writes (vectorstore/, the primary index vectorstore/db_faiss, *)
(* the backup vectorstore/db_faiss_backup, the lock marker                 *)
(* vectorstore/creation_lock, the source PDF in Data/ or data/) and, per   *)
(* process, the position of that process inside _load_vectorstore, its     *)
(* local variables and the resulting self.vectorstore.                     *)
(*                                                                         *)
(* A statement of _load_vectorstore that reads or writes the shared         *)
(* filesystem is one atomic step, so that processes interleave between an  *)
(* existence check and the call it guards (lines 37/39, 45/47, 64/65,      *)
(* 92/96, 104/105, ...).  The two existence tests of line 37 are one step, *)
(* and so are os.makedirs and the start of save_local (lines 99-100).      *)
(*                                                                         *)
(* at0 and log are history variables: the filesystem a call started from   *)
(* and the steps it has taken.  They are kept where observe is TRUE, which *)
(* is the single-process specification Spec; SpecRace, the specification   *)
(* of several processes, is about positions and the filesystem only.       *)
(*                                                                         *)
(* SpecCreate adds the rebuild script create_vectorstore.py, run before or *)
(* after the application on the same working directory.  SpecChat adds the *)
(* chat session of medibot.py: each question is one step that calls        *)
(* ChatBot.generate_response and reruns the script of the application.     *)
(***************************************************************************)
EXTENDS Naturals, Sequences, FiniteSets

\* Number of server processes that run the application against one
\* working directory.
NumProcs == 2

Procs == 1..NumProcs

(***************************************************************************)
(* Directory contents.  "none" is an absent path.  "idxA" and "idxB" are   *)
(* well-formed indexes present before the program starts, "corrupt" is a   *)
(* directory FAISS.load_local cannot deserialize, "built" is the index     *)
(* FAISS.from_documents builds from the PDF, "partial" is a directory that *)
(* a save or a copy has begun to write and has not finished.               *)
(***************************************************************************)
NONE == "none"

Contents == {NONE, "idxA", "idxB", "corrupt", "built", "partial"}

\* Indexes that deserialize.
Loadable(c) == c \in {"idxA", "idxB", "built"}

\* FAISS.load_local(path, ...): the set of outcomes for a directory holding
\* c.  "raise" is an exception; any other outcome is the index returned.  A
\* half-written directory either fails to deserialize or yields what was
\* written so far.
LoadLocal(c) ==
  IF Loadable(c) THEN {c}
  ELSE IF c = "partial" THEN {"raise", "partial"}
  ELSE {"raise"}

\* The two candidate directories of the source PDF, in probing order.
PdfCandidates == <<"Data", "data">>

VARIABLES
  dir,       \* vectorstore/ exists
  primary,   \* content of vectorstore/db_faiss
  backup,    \* content of vectorstore/db_faiss_backup
  lock,      \* vectorstore/creation_lock exists
  pdf,       \* the candidate directories that hold GALE_ENCYCLOPEDIA.pdf
  pc,        \* per process: position in _load_vectorstore
  vs,        \* per process: self.vectorstore
  pdfPath,   \* per process: local pdf_path
  at0,       \* per process: the filesystem when the current call began
  log,       \* per process: the steps the current call has taken
  rag,       \* per process: the last get_rag_response call
  observe,   \* whether the history variables at0 and log are kept
  script,    \* the run of create_vectorstore.py (create_new_vectorstore)
  chat,      \* the chat session of medibot.py main and its last answer
  emb,       \* the embedding model of the index on disk (primary, backup)
             \* and of the index each process or VectorStore has loaded
  app        \* accounts, the user's session and the chat history files

fsVars == <<dir, primary, backup, lock, pdf>>

vars == <<dir, primary, backup, lock, pdf, pc, vs, pdfPath, at0, log, rag, observe,
          script, chat, emb, app>>

\* self.vectorstore before the constructor has assigned it, the Python None,
\* and the case of the constructor leaving by an exception.
UNSET == "unset"

PYNONE == "None"

RAISED == "raised"

NoRag == [searches |-> 0, reloads |-> 0, out |-> "unset"]

FsOK ==
  /\ dir \in BOOLEAN
  /\ primary \in {NONE, "idxA", "corrupt"}
  /\ backup \in {NONE, "idxB", "corrupt"}
  /\ lock \in BOOLEAN
  /\ (~dir => primary = NONE /\ backup = NONE /\ ~lock)
  /\ pdf \in SUBSET {"Data", "data"}

InitProcs(running) ==
  /\ pc = [p \in Procs |-> IF p \in running THEN "idle" ELSE "off"]
  /\ vs = [p \in Procs |-> UNSET]
  /\ pdfPath = [p \in Procs |-> NONE]
  /\ at0 = [p \in Procs |-> [primary |-> NONE, backup |-> NONE, lock |-> FALSE, dir |-> FALSE]]
  /\ log = [p \in Procs |-> <<>>]
  /\ rag = [p \in Procs |-> NoRag]

\* create_vectorstore.py before it is run ("idle") or not part of the
\* deployment ("off"): position, return value, the filesystem at the start
\* of the run, the steps taken, local pdf_path, local chunks.
ScriptAt(l) ==
  [pc |-> l, result |-> UNSET,
   at0 |-> [primary |-> NONE, backup |-> NONE, lock |-> FALSE, dir |-> FALSE],
   log |-> <<>>, pdfPath |-> NONE, pages |-> 0, chunks |-> <<>>]

\* The chat session before the first message: st.session_state.messages
\* (medibot.py line 25), the messages last saved, the number of questions
\* asked, and what the last generate_response call was given, did and
\* returned.
NoCall ==
  [result |-> UNSET, direct |-> <<>>, final |-> <<>>, history |-> <<>>,
   context |-> <<>>, show_sources |-> FALSE, loaded |-> FALSE,
   gemini |-> "none", search |-> [kind |-> "none", docs |-> <<>>],
   genCalls |-> 0, searches |-> 0, k |-> 0]

NoChat == [messages |-> <<>>, saved |-> <<>>, turns |-> 0, call |-> NoCall]

\* The embedding model identifier of each program: chat.py line 28,
\* create_vectorstore.py line 29, vectorstore.py line 16.
ChatEmbeddingModel == "models/embedding-001"

\* A builder left on another embedding model.
OtherEmbeddingModel == "models/text-embedding-004"

ScriptEmbeddingModel == "models/embedding-001"

VectorStoreEmbeddingModel == "models/embedding-001"

\* The programs that write an index, each with its embedding model.
BuilderModels == {ChatEmbeddingModel, ScriptEmbeddingModel}

\* An index found on disk when the programs start was built by an earlier
\* run of one of them; no process holds an index yet.
EmbOK ==
  emb \in [primary : IF primary = NONE THEN {NONE} ELSE BuilderModels,
           backup : IF backup = NONE THEN {NONE} ELSE BuilderModels,
           vs : {[p \in Procs |-> NONE]},
           store : {NONE}]

\* One process: the deployment the design describes.
Init ==
  FsOK /\ InitProcs({1}) /\ observe = TRUE /\ script = ScriptAt("off") /\ chat = NoChat
    /\ EmbOK /\ app = NONE

\* Several server workers on one working directory; the rebuild script, the
\* chat and the accounts are left out.
InitRace ==
  FsOK /\ InitProcs(Procs) /\ observe = FALSE /\ script = NONE /\ chat = NONE
    /\ EmbOK /\ app = NONE

Goto(p, l) == pc' = [pc EXCEPT ![p] = l]

Note(p, e) == log' = IF observe THEN [log EXCEPT ![p] = Append(@, e)] ELSE log

\* The except clause of line 109 and the except clause of line 116.
InnerExcept == "exists112"

OuterExcept == "exists119"

(***************************************************************************)
(* medibot.py main: every script run of an authenticated session calls     *)
(* initialize_bot, which constructs a ChatBot, whose constructor calls     *)
(* _load_vectorstore.                                                      *)
(***************************************************************************)
ScriptRun(p) ==
  /\ Goto(p, "embed_init")
  /\ vs' = [vs EXCEPT ![p] = UNSET]
  /\ pdfPath' = [pdfPath EXCEPT ![p] = NONE]
  /\ at0' = IF observe
            THEN [at0 EXCEPT ![p] = [primary |-> primary, backup |-> backup,
                                     lock |-> lock, dir |-> dir]]
            ELSE at0
  /\ log' = [log EXCEPT ![p] = <<>>]
  /\ rag' = [rag EXCEPT ![p] = NoRag]
  /\ emb' = [emb EXCEPT !.vs[p] = NONE]

NewChatBot(p) ==
  /\ ScriptRun(p)
  /\ UNCHANGED <<fsVars, observe, script, chat, app>>

\* The first script run of a process.
InitializeBot(p) ==
  /\ pc[p] = "idle"
  /\ NewChatBot(p)

\* A later script run of the same process (st.rerun, or any widget event).
Rerun(p) ==
  /\ pc[p] = "done"
  /\ NewChatBot(p)

\* Lines 26-30: GoogleGenerativeAIEmbeddings(...) returns or raises.
EmbeddingsInit(p) ==
  /\ pc[p] = "embed_init"
  /\ \E ok \in BOOLEAN :
       IF ok
       THEN Goto(p, "check") /\ Note(p, "embeddingsReady")
       ELSE Goto(p, OuterExcept) /\ UNCHANGED log
  /\ UNCHANGED <<fsVars, vs, pdfPath, at0, rag, observe, script, chat, emb, app>>

\* CheckExisting without the test of the lock marker.
CheckExisting_NoLockTest(p) ==
  /\ pc[p] = "check"
  /\ Goto(p, IF primary # NONE THEN "load_primary" ELSE "touch")
  /\ UNCHANGED <<fsVars, vs, pdfPath, at0, log, rag, observe, script, chat, emb, app>>

\* Line 37: if os.path.exists(vectorstore_path) and not os.path.exists(lock_file).
CheckExisting(p) ==
  /\ pc[p] = "check"
  /\ Goto(p, IF primary # NONE /\ ~lock THEN "load_primary" ELSE "touch")
  /\ UNCHANGED <<fsVars, vs, pdfPath, at0, log, rag, observe, script, chat, emb, app>>

\* LoadPrimary without the return of line 39: the loaded primary is kept but
\* the call goes on to line 55 and rebuilds.
LoadPrimary_NoReturn(p) ==
  /\ pc[p] = "load_primary"
  /\ \E r \in LoadLocal(primary) :
       IF r = "raise"
       THEN /\ Goto(p, "exists45")
            /\ Note(p, "primaryRaised")
            /\ UNCHANGED <<vs, emb>>
       ELSE /\ Goto(p, "touch")
            /\ Note(p, "primaryLoaded")
            /\ vs' = [vs EXCEPT ![p] = r]
            /\ emb' = [emb EXCEPT !.vs[p] = emb.primary]
  /\ UNCHANGED <<fsVars, pdfPath, at0, rag, observe, script, chat, app>>

\* Lines 38-42: return FAISS.load_local(vectorstore_path, ...), or the except
\* clause of line 40.
LoadPrimary(p) ==
  /\ pc[p] = "load_primary"
  /\ \E r \in LoadLocal(primary) :
       IF r = "raise"
       THEN /\ Goto(p, "exists45")
            /\ Note(p, "primaryRaised")
            /\ UNCHANGED <<vs, emb>>
       ELSE /\ Goto(p, "done")
            /\ Note(p, "primaryLoaded")
            /\ vs' = [vs EXCEPT ![p] = r]
            /\ emb' = [emb EXCEPT !.vs[p] = emb.primary]
  /\ UNCHANGED <<fsVars, pdfPath, at0, rag, observe, script, chat, app>>

\* Line 45: if os.path.exists(backup_path).
BackupExists(p) ==
  /\ pc[p] = "exists45"
  /\ Goto(p, IF backup # NONE THEN "load_backup" ELSE "touch")
  /\ UNCHANGED <<fsVars, vs, pdfPath, at0, log, rag, observe, script, chat, emb, app>>

\* LoadBackup without the return of line 47: the loaded backup is dropped and
\* the call goes on to line 55.
LoadBackup_NoReturn(p) ==
  /\ pc[p] = "load_backup"
  /\ \E r \in LoadLocal(backup) :
       /\ Goto(p, "touch")
       /\ Note(p, IF r = "raise" THEN "backupRaised" ELSE "backupLoaded")
  /\ UNCHANGED <<fsVars, vs, pdfPath, at0, rag, observe, script, chat, emb, app>>

\* Lines 46-49: return FAISS.load_local(backup_path, ...), or the bare except
\* of line 48, which falls through to line 55.
LoadBackup(p) ==
  /\ pc[p] = "load_backup"
  /\ \E r \in LoadLocal(backup) :
       IF r = "raise"
       THEN /\ Goto(p, "touch")
            /\ Note(p, "backupRaised")
            /\ UNCHANGED <<vs, emb>>
       ELSE /\ Goto(p, "done")
            /\ Note(p, "backupLoaded")
            /\ vs' = [vs EXCEPT ![p] = r]
            /\ emb' = [emb EXCEPT !.vs[p] = emb.backup]
  /\ UNCHANGED <<fsVars, pdfPath, at0, rag, observe, script, chat, app>>

\* TouchLock as an exclusive create (open with O_CREAT | O_EXCL): it raises
\* when the marker exists.
TouchLock_Exclusive(p) ==
  /\ pc[p] = "touch"
  /\ IF dir /\ ~lock
     THEN /\ lock' = TRUE
          /\ Goto(p, "pdf_check")
          /\ Note(p, "touch")
     ELSE /\ Goto(p, OuterExcept)
          /\ UNCHANGED <<lock, log>>
  /\ UNCHANGED <<dir, primary, backup, pdf, vs, pdfPath, at0, rag, observe, script, chat, emb, app>>

\* Line 55: Path(lock_file).touch().  It creates the file or updates its
\* times, and raises FileNotFoundError when vectorstore/ does not exist;
\* line 55 is outside the inner try, so the exception reaches line 116.
TouchLock(p) ==
  /\ pc[p] = "touch"
  /\ IF dir
     THEN /\ lock' = TRUE
          /\ Goto(p, "pdf_check")
          /\ Note(p, "touch")
     ELSE /\ Goto(p, OuterExcept)
          /\ UNCHANGED <<lock, log>>
  /\ UNCHANGED <<dir, primary, backup, pdf, vs, pdfPath, at0, rag, observe, script, chat, emb, app>>

\* return v: the constructor stores the result in self.vectorstore (line 21).
Return(p, v) ==
  /\ Goto(p, "done")
  /\ vs' = [vs EXCEPT ![p] = v]

\* if os.path.exists(lock_file): at `here`; the body is at `rm`, and the
\* statement after the if returns v.
ExistsLock(p, here, rm, v) ==
  /\ pc[p] = here
  /\ IF lock
     THEN Goto(p, rm) /\ UNCHANGED vs
     ELSE Return(p, v)
  /\ UNCHANGED <<fsVars, pdfPath, at0, log, rag, observe, script, chat, emb, app>>

\* os.remove(lock_file) at `here`, followed by return v.  os.remove raises
\* FileNotFoundError when another process removed the file after the
\* existence check; the exception reaches the handler at `handler`.
RemoveLock(p, here, v, handler) ==
  /\ pc[p] = here
  /\ IF lock
     THEN /\ lock' = FALSE
          /\ Return(p, v)
          /\ Note(p, "unlock")
     ELSE /\ Goto(p, handler)
          /\ UNCHANGED <<lock, vs, log>>
  /\ UNCHANGED <<dir, primary, backup, pdf, pdfPath, at0, rag, observe, script, chat, emb, app>>

\* Lines 59-63: probe Data/ and then data/ for the PDF.
FindPdf(p) ==
  /\ pc[p] = "pdf_check"
  /\ LET found == {i \in 1..Len(PdfCandidates) : PdfCandidates[i] \in pdf}
     IN IF found = {}
        THEN /\ Goto(p, "exists64")
             /\ UNCHANGED pdfPath
        ELSE /\ Goto(p, "ingest")
             /\ pdfPath' = [pdfPath EXCEPT ![p] =
                  PdfCandidates[CHOOSE i \in found : \A j \in found : i <= j]]
  /\ UNCHANGED <<fsVars, vs, at0, log, rag, observe, script, chat, emb, app>>

\* Lines 64-66.
Exists64(p) == ExistsLock(p, "exists64", "remove65", PYNONE)

Remove65(p) == RemoveLock(p, "remove65", PYNONE, InnerExcept)

\* Lines 72-82: PyPDFLoader(pdf_path).load() and split_documents.  Either
\* call raises, or the chunk list is empty, or there are chunks.
Ingest(p) ==
  /\ pc[p] = "ingest"
  /\ \E r \in {"raise", "empty", "chunks"} :
       /\ Goto(p, CASE r = "raise" -> InnerExcept
                    [] r = "empty" -> "exists84"
                    [] r = "chunks" -> "embed")
       /\ Note(p, CASE r = "raise" -> "buildRaised"
                    [] r = "empty" -> "noChunks"
                    [] r = "chunks" -> "ingest")
  /\ UNCHANGED <<fsVars, vs, pdfPath, at0, rag, observe, script, chat, emb, app>>

\* Lines 84-86.
Exists84(p) == ExistsLock(p, "exists84", "remove85", PYNONE)

Remove85(p) == RemoveLock(p, "remove85", PYNONE, InnerExcept)

\* Line 89: FAISS.from_documents(chunks, embeddings) calls the embedding
\* service for every chunk; it returns the index or raises.
Embed(p) ==
  /\ pc[p] = "embed"
  /\ \E ok \in BOOLEAN :
       /\ Goto(p, IF ok THEN "exists92" ELSE InnerExcept)
       /\ Note(p, IF ok THEN "embed" ELSE "buildRaised")
  /\ UNCHANGED <<fsVars, vs, pdfPath, at0, rag, observe, script, chat, emb, app>>

\* Exists92 without the backup of lines 92-96: the save follows at once.
Exists92_NoBackup(p) ==
  /\ pc[p] = "exists92"
  /\ Goto(p, "save")
  /\ UNCHANGED <<fsVars, vs, pdfPath, at0, log, rag, observe, script, chat, emb, app>>

\* Line 92: if os.path.exists(vectorstore_path).
Exists92(p) ==
  /\ pc[p] = "exists92"
  /\ Goto(p, IF primary # NONE THEN "exists94" ELSE "save")
  /\ UNCHANGED <<fsVars, vs, pdfPath, at0, log, rag, observe, script, chat, emb, app>>

\* Line 94: if os.path.exists(backup_path).
Exists94(p) ==
  /\ pc[p] = "exists94"
  /\ Goto(p, IF backup # NONE THEN "rmtree95" ELSE "copytree96")
  /\ UNCHANGED <<fsVars, vs, pdfPath, at0, log, rag, observe, script, chat, emb, app>>

\* Line 95: shutil.rmtree(backup_path); it raises when the directory is gone.
Rmtree95(p) ==
  /\ pc[p] = "rmtree95"
  /\ IF backup # NONE
     THEN /\ backup' = NONE
          /\ Goto(p, "copytree96")
          /\ UNCHANGED log
     ELSE /\ Goto(p, InnerExcept)
          /\ Note(p, "buildRaised")
          /\ UNCHANGED backup
  /\ emb' = IF backup # NONE THEN [emb EXCEPT !.backup = NONE] ELSE emb
  /\ UNCHANGED <<dir, primary, lock, pdf, vs, pdfPath, at0, rag, observe, script, chat, app>>

\* Line 96: shutil.copytree(vectorstore_path, backup_path).  It raises when
\* the source is gone or the destination exists; a copy that fails on the way
\* leaves what it wrote.
Copytree96(p) ==
  /\ pc[p] = "copytree96"
  /\ IF primary = NONE \/ backup # NONE
     THEN /\ Goto(p, InnerExcept)
          /\ Note(p, "buildRaised")
          /\ UNCHANGED backup
     ELSE \E ok \in BOOLEAN :
            IF ok
            THEN /\ backup' = primary
                 /\ Goto(p, "save")
                 /\ Note(p, "copy")
            ELSE /\ backup' \in {NONE, "partial"}
                 /\ Goto(p, InnerExcept)
                 /\ Note(p, "buildRaised")
  /\ emb' = IF backup' = backup THEN emb
            ELSE [emb EXCEPT !.backup = IF backup' = NONE THEN NONE ELSE emb.primary]
  /\ UNCHANGED <<dir, primary, lock, pdf, vs, pdfPath, at0, rag, observe, script, chat, app>>

\* Lines 99-100: os.makedirs(vectorstore_path, exist_ok=True) and the start of
\* vectorstore.save_local(vectorstore_path), which writes the index files in
\* place; or either call raises before anything is written.
SaveBegin(p) ==
  /\ pc[p] = "save"
  /\ \E ok \in BOOLEAN :
       IF ok
       THEN /\ dir' = TRUE
            /\ primary' = "partial"
            /\ emb' = [emb EXCEPT !.primary = ChatEmbeddingModel]
            /\ Goto(p, "saving")
            /\ Note(p, "save")
       ELSE /\ Goto(p, InnerExcept)
            /\ Note(p, "buildRaised")
            /\ UNCHANGED <<dir, primary, emb>>
  /\ UNCHANGED <<backup, lock, pdf, vs, pdfPath, at0, rag, observe, script, chat, app>>

\* SaveEnd with the exception of save_local swallowed: the call goes on to
\* line 104 with the directory half written.
SaveEnd_Swallow(p) ==
  /\ pc[p] = "saving"
  /\ \E ok \in BOOLEAN :
       IF ok
       THEN /\ primary' = "built"
            /\ Goto(p, "exists104")
            /\ Note(p, "saved")
       ELSE /\ Goto(p, "exists104")
            /\ Note(p, "buildRaised")
            /\ UNCHANGED primary
  /\ UNCHANGED <<dir, backup, lock, pdf, vs, pdfPath, at0, rag, observe, script, chat, emb, app>>

\* Line 100: save_local finishes writing, or raises with the directory half
\* written.
SaveEnd(p) ==
  /\ pc[p] = "saving"
  /\ \E ok \in BOOLEAN :
       IF ok
       THEN /\ primary' = "built"
            /\ Goto(p, "exists104")
            /\ Note(p, "saved")
       ELSE /\ Goto(p, InnerExcept)
            /\ Note(p, "buildRaised")
            /\ UNCHANGED primary
  /\ UNCHANGED <<dir, backup, lock, pdf, vs, pdfPath, at0, rag, observe, script, chat, emb, app>>

\* Lines 104-107: the index returned is the one built in memory.
Exists104(p) == ExistsLock(p, "exists104", "remove105", "built")

Remove105(p) == RemoveLock(p, "remove105", "built", InnerExcept)

\* The except clause of line 109 without lines 112-113: it returns None and
\* leaves the marker.
Exists112_NoCleanup(p) ==
  /\ pc[p] = "exists112"
  /\ Return(p, PYNONE)
  /\ UNCHANGED <<fsVars, pdfPath, at0, log, rag, observe, script, chat, emb, app>>

\* Lines 109-114.
Exists112(p) == ExistsLock(p, "exists112", "remove113", PYNONE)

Remove113(p) == RemoveLock(p, "remove113", PYNONE, OuterExcept)

\* Lines 116-121.
Exists119(p) == ExistsLock(p, "exists119", "remove120", PYNONE)

\* Line 120: an exception raised here is inside no try block: it leaves
\* _load_vectorstore and the constructor.
Remove120(p) ==
  /\ pc[p] = "remove120"
  /\ IF lock
     THEN /\ lock' = FALSE
          /\ Return(p, PYNONE)
          /\ Note(p, "unlock")
     ELSE /\ Return(p, RAISED)
          /\ UNCHANGED <<lock, log>>
  /\ UNCHANGED <<dir, primary, backup, pdf, pdfPath, at0, rag, observe, script, chat, emb, app>>

(***************************************************************************)
(* ChatBot.get_rag_response (lines 129-161).  `searches` counts the calls  *)
(* of similarity_search and `reloads` the calls of _load_vectorstore that  *)
(* one call of get_rag_response makes.                                     *)
(***************************************************************************)
GetRagResponse(p) ==
  /\ pc[p] = "done"
  /\ vs[p] # RAISED
  /\ IF vs[p] = PYNONE
     THEN rag' = [rag EXCEPT ![p] =
            [searches |-> 0, reloads |-> 0, out |-> "NoDocumentsAvailable"]]
     ELSE \E r \in {"raise", "empty", "docs"} :
            rag' = [rag EXCEPT ![p] =
              [searches |-> 1, reloads |-> 0,
               out |-> CASE r = "raise" -> "ErrorInRagResponse"
                         [] r = "empty" -> "NoRelevantInformation"
                         [] r = "docs" -> "BasedOnMedicalLiterature"]]
  /\ UNCHANGED <<fsVars, pc, vs, pdfPath, at0, log, observe, script, chat, emb, app>>

LoadVectorstore(p) ==
  \/ InitializeBot(p)
  \/ EmbeddingsInit(p)
  \/ CheckExisting(p)
  \/ LoadPrimary(p)
  \/ BackupExists(p)
  \/ LoadBackup(p)
  \/ TouchLock(p)
  \/ FindPdf(p)
  \/ Exists64(p)
  \/ Remove65(p)
  \/ Ingest(p)
  \/ Exists84(p)
  \/ Remove85(p)
  \/ Embed(p)
  \/ Exists92(p)
  \/ Exists94(p)
  \/ Rmtree95(p)
  \/ Copytree96(p)
  \/ SaveBegin(p)
  \/ SaveEnd(p)
  \/ Exists104(p)
  \/ Remove105(p)
  \/ Exists112(p)
  \/ Remove113(p)
  \/ Exists119(p)
  \/ Remove120(p)

Next == \E p \in Procs : LoadVectorstore(p) \/ Rerun(p) \/ GetRagResponse(p)

NextRace == \E p \in Procs : LoadVectorstore(p) \/ Rerun(p)

\* One process running the application.
Spec == Init /\ [][Next]_vars

\* Several processes constructing ChatBots on one working directory.
SpecRace == InitRace /\ [][NextRace]_vars

(***************************************************************************)
(* create_vectorstore.py: create_new_vectorstore, the script that rebuilds *)
(* the primary index from the PDF.  A document is a record of the page of  *)
(* the PDF it was read from (content, 1..N) and its metadata entry 'page'. *)
(***************************************************************************)

\* Largest number of pages of the PDF.
MaxPages == 3

PYTRUE == "True"

PYFALSE == "False"

\* PyPDFLoader.load(): one document per page of the PDF, in page order, each
\* with the loader's 0-based metadata entry 'page'.
LoaderDocuments(n) == [j \in 1..n |-> [content |-> j, page |-> j - 1]]

\* PerPageChunks without the "+ 1" of line 59: the 0-based index is stored.
PerPageChunks_ZeroBased(documents) ==
  [idx \in 1..Len(documents) |-> [documents[idx] EXCEPT !.page = idx - 1]]

\* Lines 57-60: for i, doc in enumerate(documents): doc.metadata['page'] =
\* i + 1; chunks.append(doc).  idx is the 1-based position, i = idx - 1.
PerPageChunks(documents) ==
  [idx \in 1..Len(documents) |-> [documents[idx] EXCEPT !.page = (idx - 1) + 1]]

ScriptGoto(l, e) ==
  script' = [script EXCEPT !.pc = l, !.log = Append(@, e)]

\* return True / return False, and the except clause of lines 83-88.
ScriptReturn(v, e) ==
  script' = [script EXCEPT !.pc = "done", !.result = v, !.log = Append(@, e)]

ScriptExcept == ScriptReturn(PYFALSE, "raised")

\* Lines 12-23: the script starts; without GOOGLE_API_KEY it returns False.
CreateStart ==
  /\ script.pc \in {"idle", "done"}
  /\ pc[1] \in {"idle", "done"}
  /\ \E api_key \in BOOLEAN :
       script' = [ScriptAt(IF api_key THEN "embed_init" ELSE "done") EXCEPT
                    !.result = IF api_key THEN UNSET ELSE PYFALSE,
                    !.at0 = [primary |-> primary, backup |-> backup,
                             lock |-> lock, dir |-> dir]]
  /\ UNCHANGED <<fsVars, pc, vs, pdfPath, at0, log, rag, observe, chat, emb, app>>

\* Lines 27-31: GoogleGenerativeAIEmbeddings(...) returns or raises.
CreateEmbeddings ==
  /\ script.pc = "embed_init"
  /\ \E ok \in BOOLEAN :
       IF ok THEN ScriptGoto("cleanup", "embeddingsReady") ELSE ScriptExcept
  /\ UNCHANGED <<fsVars, pc, vs, pdfPath, at0, log, rag, observe, chat, emb, app>>

\* Lines 37-39: if vectorstore_path.exists(): shutil.rmtree(vectorstore_path,
\* ignore_errors=True).  An error of rmtree is ignored and leaves the
\* directory in place.
CreateCleanup ==
  /\ script.pc = "cleanup"
  /\ IF primary # NONE
     THEN /\ \E r \in {NONE, primary} : primary' = r
          /\ ScriptGoto("pdf_check", "rmtree")
     ELSE /\ UNCHANGED primary
          /\ ScriptGoto("pdf_check", "cleanup")
  /\ emb' = IF primary' = NONE THEN [emb EXCEPT !.primary = NONE] ELSE emb
  /\ UNCHANGED <<dir, backup, lock, pdf, pc, vs, pdfPath, at0, log, rag, observe, chat, app>>

\* CreateFindPdf probing data/ before Data/.
CreateFindPdf_Reversed ==
  /\ script.pc = "pdf_check"
  /\ IF PdfCandidates[2] \in pdf
     THEN script' = [script EXCEPT !.pc = "load", !.pdfPath = PdfCandidates[2],
                                   !.log = Append(@, "pdfFound")]
     ELSE IF PdfCandidates[1] \in pdf
     THEN script' = [script EXCEPT !.pc = "load", !.pdfPath = PdfCandidates[1],
                                   !.log = Append(@, "pdfFound")]
     ELSE ScriptReturn(PYFALSE, "noPdf")
  /\ UNCHANGED <<fsVars, pc, vs, pdfPath, at0, log, rag, observe, chat, emb, app>>

\* Lines 44-49: Data/GALE_ENCYCLOPEDIA.pdf, then data/GALE_ENCYCLOPEDIA.pdf,
\* else return False.
CreateFindPdf ==
  /\ script.pc = "pdf_check"
  /\ IF PdfCandidates[1] \in pdf
     THEN script' = [script EXCEPT !.pc = "load", !.pdfPath = PdfCandidates[1],
                                   !.log = Append(@, "pdfFound")]
     ELSE IF PdfCandidates[2] \in pdf
     THEN script' = [script EXCEPT !.pc = "load", !.pdfPath = PdfCandidates[2],
                                   !.log = Append(@, "pdfFound")]
     ELSE ScriptReturn(PYFALSE, "noPdf")
  /\ UNCHANGED <<fsVars, pc, vs, pdfPath, at0, log, rag, observe, chat, emb, app>>

\* Lines 52-61: PyPDFLoader(str(pdf_path)).load() raises or returns the
\* documents of a PDF of n pages; the loop renumbers them into chunks.
CreateChunks ==
  /\ script.pc = "load"
  /\ \/ ScriptExcept
     \/ \E n \in 0..MaxPages :
          script' = [script EXCEPT !.pc = "chunk_check",
                                   !.pages = n,
                                   !.chunks = PerPageChunks(LoaderDocuments(n)),
                                   !.log = Append(@, "ingest")]
  /\ UNCHANGED <<fsVars, pc, vs, pdfPath, at0, log, rag, observe, chat, emb, app>>

\* Lines 63-65: if not chunks: return False.
CreateCheckChunks ==
  /\ script.pc = "chunk_check"
  /\ IF script.chunks = <<>>
     THEN ScriptReturn(PYFALSE, "noChunks")
     ELSE ScriptGoto("embed", "chunks")
  /\ UNCHANGED <<fsVars, pc, vs, pdfPath, at0, log, rag, observe, chat, emb, app>>

\* Line 68: FAISS.from_documents(chunks, embeddings) returns or raises.
CreateEmbed ==
  /\ script.pc = "embed"
  /\ \E ok \in BOOLEAN :
       IF ok THEN ScriptGoto("mkdir", "embed") ELSE ScriptExcept
  /\ UNCHANGED <<fsVars, pc, vs, pdfPath, at0, log, rag, observe, chat, emb, app>>

\* Line 72: vectorstore_path.parent.mkdir(parents=True, exist_ok=True).
CreateMkdir ==
  /\ script.pc = "mkdir"
  /\ \E ok \in BOOLEAN :
       IF ok
       THEN /\ dir' = TRUE
            /\ ScriptGoto("save", "mkdir")
       ELSE /\ UNCHANGED dir
            /\ ScriptExcept
  /\ UNCHANGED <<primary, backup, lock, pdf, pc, vs, pdfPath, at0, log, rag, observe, chat, emb, app>>

\* Line 75: vectorstore.save_local(str(vectorstore_path)) begins to write the
\* index files, or raises before anything is written.
CreateSaveBegin ==
  /\ script.pc = "save"
  /\ \E ok \in BOOLEAN :
       IF ok
       THEN /\ primary' = "partial"
            /\ emb' = [emb EXCEPT !.primary = ScriptEmbeddingModel]
            /\ ScriptGoto("saving", "save")
       ELSE /\ UNCHANGED <<primary, emb>>
            /\ ScriptExcept
  /\ UNCHANGED <<dir, backup, lock, pdf, pc, vs, pdfPath, at0, log, rag, observe, chat, app>>

\* Lines 75-81: save_local finishes and the script returns True, or it raises
\* with the directory half written.
CreateSaveEnd ==
  /\ script.pc = "saving"
  /\ \E ok \in BOOLEAN :
       IF ok
       THEN /\ primary' = "built"
            /\ ScriptReturn(PYTRUE, "saved")
       ELSE /\ UNCHANGED primary
            /\ ScriptExcept
  /\ UNCHANGED <<dir, backup, lock, pdf, pc, vs, pdfPath, at0, log, rag, observe, chat, emb, app>>

CreateNewVectorstore ==
  \/ CreateStart
  \/ CreateEmbeddings
  \/ CreateCleanup
  \/ CreateFindPdf
  \/ CreateChunks
  \/ CreateCheckChunks
  \/ CreateEmbed
  \/ CreateMkdir
  \/ CreateSaveBegin
  \/ CreateSaveEnd

\* The application steps only while the script is not running.
AppStep ==
  /\ script.pc \in {"idle", "done"}
  /\ LoadVectorstore(1) \/ Rerun(1)

InitCreate ==
  FsOK /\ InitProcs({1}) /\ observe = TRUE /\ script = ScriptAt("idle") /\ chat = NoChat
    /\ EmbOK /\ app = NONE

NextCreate == CreateNewVectorstore \/ AppStep

\* The script and one application process, run one after the other in any
\* order on one working directory.
SpecCreate == InitCreate /\ [][NextCreate]_vars

(***************************************************************************)
(* models/vectorstore.py: VectorStore.load_vectorstore, a second loader of *)
(* the primary index.                                                      *)
(***************************************************************************)

\* Lines 20-36: initialize_embeddings if needed, then FAISS.load_local(path,
\* self.embeddings) if the path exists.  self.vectorstore is assigned only
\* when the load succeeds; a missing path and an exception return None.
StoreLoadVectorstore ==
  /\ script.pc \in {"idle", "done"}
  /\ pc[1] \in {"idle", "done"}
  /\ \E ok \in BOOLEAN :
       IF ok /\ primary # NONE
       THEN \E r \in LoadLocal(primary) :
              emb' = IF r = "raise" THEN emb ELSE [emb EXCEPT !.store = emb.primary]
       ELSE UNCHANGED emb
  /\ UNCHANGED <<fsVars, pc, vs, pdfPath, at0, log, rag, observe, script, chat, app>>

NextEmbed == NextCreate \/ StoreLoadVectorstore

\* Every program that builds or loads an index, run one after the other in
\* any order on one working directory.
SpecEmbed == InitCreate /\ [][NextEmbed]_vars

(***************************************************************************)
(* The chat: ChatBot.generate_response and the handler of a question in    *)
(* medibot.py.  A string is a sequence of tokens; a token is a piece of    *)
(* text and, where the text embeds a number, that number.  A message is    *)
(* its role and its position n in the session's transcript, which stands   *)
(* for its content.                                                        *)
(***************************************************************************)

\* Largest number of questions asked in one session.
MaxTurns == 4

\* chat.py line 136: similarity_search(query, k=3).
K == 3

\* chat.py line 241: message_history[-4:].
ContextWindow == 4

\* medibot.py line 403: st.session_state.messages[-5:].
HistoryWindow == 5

T(text) == [s |-> text, n |-> 0]

\* Python's s[-n:] on a list.
LastN(s, n) == IF Len(s) <= n THEN s ELSE SubSeq(s, Len(s) - n + 1, Len(s))

NoDocsText == "No medical documents available for reference."

\* The test "No medical documents available" in text, token by token.
HasNoDocsPhrase(str) ==
  \E i \in 1..Len(str) :
    str[i].s \in {NoDocsText, "passage saying: No medical documents available"}

\* The chunks a search can return: an ordinary passage of the first page
\* and, from the last page, a passage in which the phrase occurs.
Chunks ==
  {[content |-> "passage", page |-> 1],
   [content |-> "passage saying: No medical documents available", page |-> MaxPages]}

\* What similarity_search(query, k=3) can do on a loaded index: raise, or
\* return at most k chunks.
SearchOutcomes ==
  {[kind |-> "raise", docs |-> <<>>]}
    \cup {[kind |-> "docs", docs |-> d] : d \in UNION {[1..n -> Chunks] : n \in 0..K}}

NoSearch == [kind |-> "none", docs |-> <<>>]

\* What requests.post and the decoding of its result can do.
GeminiOutcomes == {"ok", "non200", "nocandidates", "raise"}

\* The value that stands for an exception leaving a call.
Raises == <<T(RAISED)>>

\* _get_gemini_response without its try/except: an exception of
\* requests.post or of the decoding leaves the call.
GeminiResponse_NoCatch(outcome) ==
  CASE outcome = "ok" -> <<T("answer")>>
    [] outcome = "non200" -> <<T("API Error: "), T("response.text")>>
    [] outcome = "nocandidates" -> <<T("No response generated")>>
    [] outcome = "raise" -> Raises

\* chat.py lines 163-193, _get_gemini_response.
GeminiResponse(outcome) ==
  CASE outcome = "ok" -> <<T("answer")>>
    [] outcome = "non200" -> <<T("API Error: "), T("response.text")>>
    [] outcome = "nocandidates" -> <<T("No response generated")>>
    [] outcome = "raise" -> <<T("Failed to generate response : "), T("str(e)")>>

\* chat.py lines 129-161, get_rag_response(query, include_sources) on a
\* ChatBot whose vectorstore is loaded or None.
RagResponse(loaded, search, include_sources) ==
  IF ~loaded THEN <<T(NoDocsText)>>
  ELSE IF search.kind = "raise"
  THEN <<T("Error in RAG response: "), T("str(e)")>>
  ELSE IF search.docs = <<>>
  THEN <<T("No relevant information found in medical documents.")>>
  ELSE LET docs == search.docs
       IN <<T("Based on medical literature:")>>
            \o [i \in 1..Len(docs) |-> T(docs[i].content)]
            \o (IF include_sources
                THEN <<T("Sources:")>>
                       \o [i \in 1..Len(docs) |->
                            [s |-> "- source (Page page)", n |-> docs[i].page]]
                ELSE <<>>)

\* SimilaritySearches with retrieval done on every call and only shown on
\* request.
SimilaritySearches_Always(loaded, show_sources) == IF loaded THEN 1 ELSE 0

\* Number of calls of similarity_search in one generate_response: line 278
\* guards the call of get_rag_response, line 132 the search.
SimilaritySearches(loaded, show_sources) ==
  IF show_sources /\ loaded THEN 1 ELSE 0

\* Context without the slice of line 241.
Context_WholeHistory(message_history) ==
  [i \in 1..Len(message_history) |->
     [label |-> IF message_history[i].role = "user" THEN "User" ELSE "Assistant",
      n |-> message_history[i].n]]

\* chat.py lines 239-242: one line "User: ..." or "Assistant: ..." for each
\* of message_history[-4:].
Context(message_history) ==
  LET window == LastN(message_history, ContextWindow)
  IN [i \in 1..Len(window) |->
        [label |-> IF window[i].role = "user" THEN "User" ELSE "Assistant",
         n |-> window[i].n]]

SourcesHeader == T("Additional Research & Sources:")

\* FinalResponse with the research block appended whether or not sources
\* were asked for.
FinalResponse_Always(base_response, show_sources, rag_response) ==
  IF rag_response # <<>> /\ ~HasNoDocsPhrase(rag_response)
  THEN base_response \o <<SourcesHeader>> \o rag_response
  ELSE base_response

\* chat.py lines 278-285.
FinalResponse(base_response, show_sources, rag_response) ==
  IF show_sources
  THEN IF rag_response # <<>> /\ ~HasNoDocsPhrase(rag_response)
       THEN base_response \o <<SourcesHeader>> \o rag_response
       ELSE base_response
  ELSE base_response

\* chat.py lines 231-291, generate_response, on a ChatBot whose vectorstore
\* is loaded or None, with the outcomes of the two outside calls.
GenerateResponse(message_history, show_sources, loaded, gemini, search) ==
  LET base_response == GeminiResponse(gemini)
      rag_response == RagResponse(loaded, search, TRUE)
      call == [NoCall EXCEPT !.history = message_history,
                             !.context = Context(message_history),
                             !.show_sources = show_sources,
                             !.loaded = loaded,
                             !.gemini = gemini,
                             !.search = search,
                             !.genCalls = 1]
  IN IF base_response = Raises
     THEN [call EXCEPT !.result = PYNONE]
     ELSE [call EXCEPT !.result = "pair",
                       !.direct = base_response,
                       !.final = FinalResponse(base_response, show_sources, rag_response),
                       !.searches = SimilaritySearches(loaded, show_sources),
                       !.k = IF SimilaritySearches(loaded, show_sources) > 0 THEN K ELSE 0]

\* medibot.py lines 396-413: the user's question is appended, the last five
\* messages go to generate_response, and if it returned a pair the answer
\* is appended, the chat saved and the script rerun.
SendMessage ==
  /\ pc[1] = "done"
  /\ vs[1] # RAISED
  /\ chat.turns < MaxTurns
  /\ LET loaded == vs[1] # PYNONE
         asked == Append(chat.messages,
                         [role |-> "user", n |-> Len(chat.messages) + 1])
     IN \E show_sources \in BOOLEAN, gemini \in GeminiOutcomes :
        \E search \in IF show_sources /\ loaded THEN SearchOutcomes ELSE {NoSearch} :
          LET response ==
                GenerateResponse(LastN(asked, HistoryWindow), show_sources,
                                 loaded, gemini, search)
              answered ==
                Append(asked, [role |-> "assistant", n |-> Len(asked) + 1])
          IN IF response.result = PYNONE
             THEN /\ chat' = [chat EXCEPT !.messages = asked,
                                          !.turns = @ + 1,
                                          !.call = response]
                  /\ UNCHANGED <<pc, vs, pdfPath, at0, log, rag, emb>>
             ELSE /\ chat' = [messages |-> answered, saved |-> answered,
                              turns |-> chat.turns + 1, call |-> response]
                  /\ ScriptRun(1)
  /\ UNCHANGED <<fsVars, observe, script, app>>

InitChat ==
  FsOK /\ InitProcs({1}) /\ observe = FALSE /\ script = ScriptAt("off") /\ chat = NoChat
    /\ EmbOK /\ app = NONE

NextChat == LoadVectorstore(1) \/ Rerun(1) \/ SendMessage

\* One process and one user session asking up to MaxTurns questions.
SpecChat == InitChat /\ [][NextChat]_vars

(***************************************************************************)
(* The style instruction of generate_response (chat.py:206-253).  A        *)
(* question is a sequence of words; a keyword is a sequence of words too,  *)
(* and `keyword in query_lower` is a substring test, so a word of the      *)
(* question matches a keyword word that it contains ("specialist"          *)
(* contains "list").                                                       *)
(***************************************************************************)
MaxWords == 3

Words == {"What", "what", "is", "are", "detailed", "specialist", "versus", "fever"}

\* str.lower() on the words of the vocabulary.
Lower(w) == IF w = "What" THEN "what" ELSE w

\* k in w, for a word w of the vocabulary and a keyword word k.
WordHas(w, k) ==
  w = k \/ <<w, k>> \in {<<"detailed", "detail">>, <<"specialist", "list">>}

\* keyword in query_lower
KeywordIn(keyword, query) ==
  \E i \in 1..Len(query) :
    /\ i + Len(keyword) - 1 <= Len(query)
    /\ \A j \in 1..Len(keyword) : WordHas(Lower(query[i + j - 1]), keyword[j])

AnyIn(keywords, query) == \E keyword \in keywords : KeywordIn(keyword, query)

detail_keywords ==
  {<<"detail">>, <<"explain">>, <<"elaborate">>, <<"comprehensive">>,
   <<"thorough">>, <<"in-depth">>}

list_keywords ==
  {<<"list">>, <<"what", "are">>, <<"types", "of">>, <<"kinds", "of">>,
   <<"ways", "to">>, <<"steps">>, <<"methods">>}

what_is_keywords ==
  {<<"what", "is">>, <<"what", "are">>, <<"define">>, <<"meaning", "of">>,
   <<"tell", "me", "about">>}

compare_keywords ==
  {<<"compare">>, <<"difference">>, <<"versus">>, <<"vs">>, <<"better">>}

AnalyzeQueryType(query) ==
  [detailed |-> AnyIn(detail_keywords, query),
   list |-> AnyIn(list_keywords, query),
   what_is |-> AnyIn(what_is_keywords, query),
   compare |-> AnyIn(compare_keywords, query)]

DetailedInstruction ==
  "Provide a detailed, comprehensive response with thorough explanations."

ListInstruction ==
  "Structure your response as a clear, organized list with bullet points where appropriate."

WhatIsInstruction ==
  "Focus on providing a clear, concise definition and basic explanation first, then add details."

CompareInstruction ==
  "Structure your response to clearly compare and contrast the relevant aspects."

StyleInstruction_ListFirst(query_type) ==
  IF query_type.list THEN ListInstruction
  ELSE IF query_type.detailed THEN DetailedInstruction
  ELSE IF query_type.what_is THEN WhatIsInstruction
  ELSE IF query_type.compare THEN CompareInstruction
  ELSE ""

StyleInstruction(query_type) ==
  IF query_type.detailed THEN DetailedInstruction
  ELSE IF query_type.list THEN ListInstruction
  ELSE IF query_type.what_is THEN WhatIsInstruction
  ELSE IF query_type.compare THEN CompareInstruction
  ELSE ""

Prompts == UNION {[1..n -> Words] : n \in 0..MaxWords}

NoQueryType == [detailed |-> FALSE, list |-> FALSE, what_is |-> FALSE, compare |-> FALSE]

\* generate_response as far as the style instruction: lines 236 and 244-253.
BuildStyleInstruction ==
  /\ chat.calls = 0
  /\ chat' = [chat EXCEPT !.query_type = AnalyzeQueryType(chat.prompt),
                          !.style_instruction = StyleInstruction(AnalyzeQueryType(chat.prompt)),
                          !.calls = 1]
  /\ UNCHANGED <<fsVars, pc, vs, pdfPath, at0, log, rag, observe, script, emb, app>>

\* The same question put to the same ChatBot a second time.
RebuildStyleInstruction ==
  /\ chat.calls = 1
  /\ chat' = [chat EXCEPT !.previous = chat.style_instruction,
                          !.query_type = AnalyzeQueryType(chat.prompt),
                          !.style_instruction = StyleInstruction(AnalyzeQueryType(chat.prompt)),
                          !.calls = 2]
  /\ UNCHANGED <<fsVars, pc, vs, pdfPath, at0, log, rag, observe, script, emb, app>>

InitStyle ==
  /\ dir = FALSE /\ primary = NONE /\ backup = NONE /\ lock = FALSE /\ pdf = {}
  /\ InitProcs({}) /\ observe = FALSE /\ script = NONE /\ EmbOK /\ app = NONE
  /\ \E prompt \in Prompts :
       chat = [prompt |-> prompt, query_type |-> NoQueryType, style_instruction |-> UNSET,
               previous |-> UNSET, calls |-> 0]

NextStyle == BuildStyleInstruction \/ RebuildStyleInstruction

\* One question of up to MaxWords words put to generate_response twice.
SpecStyle == InitStyle /\ [][NextStyle]_vars

(***************************************************************************)
(* The Streamlit front end (medibot.py): accounts in config.yaml, one      *)
(* browser session, and one chat-history file per user.  All of it is the  *)
(* record app:                                                             *)
(*   config   the content of config.yaml                                   *)
(*   files    chat_histories/<username>_chat_history.json, per username    *)
(*   session  st.session_state                                             *)
(*   now      the wall clock in whole seconds, as strftime renders it      *)
(*   sends    questions asked so far                                       *)
(*   login    the credentials of the last successful login                 *)
(*   register the inputs and the result of the last registration           *)
(*   atLogout the session as perform_logout found it                       *)
(*   restored the user's chats as load_chat_history_from_file left them    *)
(*   keyError save_current_chat has indexed a missing chat                 *)
(* (the last five record what handlers did and are read by no handler).    *)
(* st.session_state.messages and a chat's "messages" can be one list       *)
(* object; session.alias says that they are.                               *)
(***************************************************************************)
MaxTime == 3
MaxSends == 2

Usernames == {"admin", "alice", "bob"}
Passwords == {"admin", "pw"}
Emails == {"a@x.org", "b@x.org", "nomail"}

EmptyDict == [x \in {} |-> NONE]

\* d[k] = v on a dict d
Put(d, k, v) == [x \in DOMAIN d \cup {k} |-> IF x = k THEN v ELSE d[x]]

\* datetime.now().strftime("%Y%m%d_%H%M%S"): one value per second.
ChatId(t) == [fmt |-> "%Y%m%d_%H%M%S", t |-> t]

NoChatId == [fmt |-> "None", t |-> 0]

\* datetime.now().strftime("%Y-%m-%d %H:%M:%S")
Timestamp(t) == [fmt |-> "%Y-%m-%d %H:%M:%S", t |-> t]

ChatMessage(role, content) == [cls |-> "ChatMessage", role |-> role, content |-> content]

\* {"role": msg.role, "content": msg.content}
ToDict(msg) == [role |-> msg.role, content |-> msg.content]

\* ChatMessage(role=msg["role"], content=msg["content"])
FromDict(d) == ChatMessage(d.role, d.content)

\* Lines 24-29 and 312-313: the keys a fresh session gets.
NoSession ==
  [authentication_status |-> PYNONE, username |-> NONE, messages |-> <<>>,
   alias |-> FALSE, chat_history |-> EmptyDict, current_chat_id |-> NoChatId]

NoFile == [exists |-> FALSE, data |-> EmptyDict]

\* The JSON document of lines 36-43.
HistoryDict(chats) ==
  [chat_id \in DOMAIN chats |->
     [title |-> chats[chat_id].title,
      timestamp |-> chats[chat_id].timestamp,
      messages |-> [i \in 1..Len(chats[chat_id].messages) |->
                      ToDict(chats[chat_id].messages[i])]]]

\* save_chat_history_to_file: the files after the call.
SaveChatHistoryToFile(s, files, username) ==
  IF username \in DOMAIN s.chat_history
  THEN [files EXCEPT ![username] =
          [exists |-> TRUE, data |-> HistoryDict(s.chat_history[username])]]
  ELSE files

\* load_chat_history_from_file: the session after the call.
LoadChatHistoryFromFile(s, files, username) ==
  LET history_dict == files[username].data
      before == IF username \in DOMAIN s.chat_history
                THEN s.chat_history[username] ELSE EmptyDict
      loaded ==
        [chat_id \in DOMAIN before \cup DOMAIN history_dict |->
           IF chat_id \in DOMAIN history_dict
           THEN [title |-> history_dict[chat_id].title,
                 timestamp |-> history_dict[chat_id].timestamp,
                 messages |-> [i \in 1..Len(history_dict[chat_id].messages) |->
                                 FromDict(history_dict[chat_id].messages[i])]]
           ELSE before[chat_id]]
  IN IF files[username].exists /\ DOMAIN history_dict # {}
     THEN [s EXCEPT !.chat_history = Put(@, username, loaded)]
     ELSE s

\* create_new_chat at second t.  Both calls of datetime.now() are taken in
\* the same second.
CreateNewChat(s, t) ==
  LET username == s.username
      chats == IF username \in DOMAIN s.chat_history
               THEN s.chat_history[username] ELSE EmptyDict
      chat_number == Cardinality(DOMAIN chats) + 1
  IN [s EXCEPT !.messages = <<>>,
               !.alias = FALSE,
               !.current_chat_id = ChatId(t),
               !.chat_history =
                  Put(@, username,
                      Put(chats, ChatId(t),
                          [title |-> [text |-> "Chat ", n |-> chat_number],
                           timestamp |-> Timestamp(t),
                           messages |-> <<>>]))]

\* load_chat
LoadChatInto(s, chat_id) ==
  IF chat_id \in DOMAIN s.chat_history[s.username]
  THEN [s EXCEPT !.messages = s.chat_history[s.username][chat_id].messages,
                 !.alias = TRUE,
                 !.current_chat_id = chat_id]
  ELSE s

\* st.session_state.messages.append(msg): the chat that shares the list
\* sees the new message too.
AppendMessage(s, msg) ==
  IF s.alias
  THEN [s EXCEPT !.messages = Append(@, msg),
                 !.chat_history[s.username][s.current_chat_id].messages = Append(@, msg)]
  ELSE [s EXCEPT !.messages = Append(@, msg)]

\* The guard of save_current_chat (line 99).
SavesCurrentChat(s) ==
  s.current_chat_id # NoChatId /\ s.username \in DOMAIN s.chat_history

\* Line 100 would index a chat that is not there.
SaveRaisesKeyError(s) ==
  SavesCurrentChat(s) /\ s.current_chat_id \notin DOMAIN s.chat_history[s.username]

\* save_current_chat, session part (line 100).
SaveCurrentChat(s) ==
  IF SavesCurrentChat(s) /\ ~SaveRaisesKeyError(s)
  THEN [s EXCEPT !.chat_history[s.username][s.current_chat_id].messages = s.messages,
                 !.alias = TRUE]
  ELSE s

\* Lines 379-381, run at the top of every script run of a signed-in session.
EnsureCurrentChat(s, t) ==
  IF s.current_chat_id = NoChatId THEN CreateNewChat(s, t) ELSE s

Authenticated == app.session.authentication_status = PYTRUE

\* One second passes.
Tick ==
  /\ app.now < MaxTime
  /\ app' = [app EXCEPT !.now = @ + 1]
  /\ UNCHANGED <<fsVars, pc, vs, pdfPath, at0, log, rag, observe, script, chat, emb>>

\* Lines 322-346: the Login button with the two text inputs; a successful
\* login reruns the script, which creates a chat (lines 379-381).
Login ==
  /\ ~Authenticated
  /\ \E username \in Usernames, password \in Passwords :
       LET usernames == app.config.usernames
           known == username \in DOMAIN usernames
           ok == known /\ (\/ (username = "admin" /\ password = "admin")
                           \/ password = usernames[username].password)
           signed == [app.session EXCEPT !.authentication_status = PYTRUE,
                                         !.username = username]
           loaded == LoadChatHistoryFromFile(signed, app.files, username)
           attempt == [username |-> username, password |-> password,
                       stored |-> usernames[username].password]
       IN IF ok
          THEN app' = [app EXCEPT !.session = EnsureCurrentChat(loaded, app.now),
                                  !.login = attempt,
                                  !.restored =
                                     IF username \in DOMAIN loaded.chat_history
                                     THEN loaded.chat_history[username] ELSE EmptyDict]
          ELSE UNCHANGED app
  /\ UNCHANGED <<fsVars, pc, vs, pdfPath, at0, log, rag, observe, script, chat, emb>>

IsValidEmail(email) == email \in {"a@x.org", "b@x.org"}

RegisterUser_NoEmailCheck(config, username, name, email, password) ==
  IF username \in DOMAIN config.usernames
  THEN [ok |-> FALSE, message |-> "Username already exists", config |-> config]
  ELSE [ok |-> TRUE, message |-> "Registration successful",
        config |->
          [usernames |-> Put(config.usernames, username,
                             [email |-> email, name |-> name, password |-> password]),
           preauthorized |->
             IF \E i \in 1..Len(config.preauthorized) : config.preauthorized[i] = email
             THEN config.preauthorized ELSE Append(config.preauthorized, email)]]

\* register_user: the result and the configuration on disk after the call.
RegisterUser(config, username, name, email, password) ==
  IF username \in DOMAIN config.usernames
  THEN [ok |-> FALSE, message |-> "Username already exists", config |-> config]
  ELSE IF \E u \in DOMAIN config.usernames : config.usernames[u].email = email
  THEN [ok |-> FALSE, message |-> "Email already registered", config |-> config]
  ELSE [ok |-> TRUE, message |-> "Registration successful",
        config |->
          [usernames |-> Put(config.usernames, username,
                             [email |-> email, name |-> name, password |-> password]),
           preauthorized |->
             IF \E i \in 1..Len(config.preauthorized) : config.preauthorized[i] = email
             THEN config.preauthorized ELSE Append(config.preauthorized, email)]]

\* Lines 348-371: the registration form.
Register ==
  /\ ~Authenticated
  /\ \E new_username \in Usernames \cup {""}, new_email \in Emails,
        new_password \in Passwords, confirm_password \in Passwords :
       LET call == RegisterUser(app.config, new_username, "Full Name", new_email,
                                new_password)
           Outcome(called, ok, message) ==
             [username |-> new_username, email |-> new_email,
              called |-> called, ok |-> ok, message |-> message]
       IN IF new_username = ""
          THEN app' = [app EXCEPT !.register =
                         Outcome(FALSE, FALSE, "Please fill in all fields")]
          ELSE IF new_password # confirm_password
          THEN app' = [app EXCEPT !.register =
                         Outcome(FALSE, FALSE, "Passwords do not match")]
          ELSE IF ~IsValidEmail(new_email)
          THEN app' = [app EXCEPT !.register =
                         Outcome(FALSE, FALSE, "Please enter a valid email address")]
          ELSE app' = [app EXCEPT !.config = call.config,
                                  !.register =
                                     Outcome(TRUE, call.ok, call.message)]
  /\ UNCHANGED <<fsVars, pc, vs, pdfPath, at0, log, rag, observe, script, chat, emb>>

\* The New Chat button: create_new_chat as on_click callback (line 169).
NewChat ==
  /\ Authenticated
  /\ app' = [app EXCEPT !.session = CreateNewChat(app.session, app.now)]
  /\ UNCHANGED <<fsVars, pc, vs, pdfPath, at0, log, rag, observe, script, chat, emb>>

\* A chat button of the sidebar (lines 181-186).
LoadChat ==
  /\ Authenticated
  /\ app.session.username \in DOMAIN app.session.chat_history
  /\ \E chat_id \in DOMAIN app.session.chat_history[app.session.username] :
       app' = [app EXCEPT !.session = LoadChatInto(app.session, chat_id)]
  /\ UNCHANGED <<fsVars, pc, vs, pdfPath, at0, log, rag, observe, script, chat, emb>>

\* The Clear button (lines 248-254).
ClearAll ==
  /\ Authenticated
  /\ LET s == app.session
         cleared == [s EXCEPT !.chat_history =
                                 IF s.username \in DOMAIN @
                                 THEN Put(@, s.username, EmptyDict) ELSE @,
                              !.messages = <<>>,
                              !.alias = FALSE,
                              !.current_chat_id = NoChatId]
     IN app' = [app EXCEPT !.session = CreateNewChat(cleared, app.now)]
  /\ UNCHANGED <<fsVars, pc, vs, pdfPath, at0, log, rag, observe, script, chat, emb>>

ClearChatHistoryIn_KeepId(s) ==
  IF s.username \in DOMAIN s.chat_history
  THEN [s EXCEPT !.chat_history = Put(@, s.username, EmptyDict),
                 !.messages = <<>>, !.alias = FALSE]
  ELSE s

\* clear_chat_history, session part (lines 115-133).
ClearChatHistoryIn(s) ==
  LET username == s.username
      kept == /\ s.current_chat_id # NoChatId
              /\ username \in DOMAIN s.chat_history
              /\ s.current_chat_id \in DOMAIN s.chat_history[username]
  IN IF username \notin DOMAIN s.chat_history THEN s
     ELSE IF kept
     THEN [s EXCEPT !.chat_history =
                       Put(@, username,
                           Put(EmptyDict, s.current_chat_id,
                               s.chat_history[username][s.current_chat_id])),
                    !.messages = s.chat_history[username][s.current_chat_id].messages,
                    !.alias = TRUE]
     ELSE [s EXCEPT !.chat_history = Put(@, username, EmptyDict),
                    !.messages = <<>>,
                    !.alias = FALSE,
                    !.current_chat_id = NoChatId]

\* clear_chat_history called in a signed-in session, with the file update of
\* lines 135-152.
ClearChatHistory ==
  /\ Authenticated
  /\ LET s == app.session
         username == s.username
         kept == /\ s.current_chat_id # NoChatId
                 /\ username \in DOMAIN s.chat_history
                 /\ s.current_chat_id \in DOMAIN s.chat_history[username]
     IN app' = [app EXCEPT
                  !.session = ClearChatHistoryIn(s),
                  !.files[username] =
                     IF kept
                     THEN [exists |-> TRUE,
                           data |-> HistoryDict(
                                      Put(EmptyDict, s.current_chat_id,
                                          s.chat_history[username][s.current_chat_id]))]
                     ELSE NoFile]
  /\ UNCHANGED <<fsVars, pc, vs, pdfPath, at0, log, rag, observe, script, chat, emb>>

\* generate_response returns a pair of texts in every case (its callees turn
\* their failures into text), so `if response:` of line 406 is taken.
Ask ==
  /\ Authenticated
  /\ app.sends < MaxSends
  /\ LET s0 == EnsureCurrentChat(app.session, app.now)
         n == Len(s0.messages)
         asked == AppendMessage(s0, ChatMessage("user", [s |-> "prompt", n |-> n + 1]))
         answered ==
           AppendMessage(asked, ChatMessage("assistant", [s |-> "final_result", n |-> n + 2]))
         saved == SaveCurrentChat(answered)
     IN app' = [app EXCEPT
                  !.session = saved,
                  !.sends = @ + 1,
                  !.keyError = @ \/ SaveRaisesKeyError(answered),
                  !.files = IF SavesCurrentChat(answered) /\ ~SaveRaisesKeyError(answered)
                            THEN SaveChatHistoryToFile(saved, @, saved.username)
                            ELSE @]
  /\ UNCHANGED <<fsVars, pc, vs, pdfPath, at0, log, rag, observe, script, chat, emb>>

NoLogout == [username |-> NONE, chat_history |-> EmptyDict, messages |-> <<>>,
             current_chat_id |-> NoChatId]

PerformLogout_NoSave(a) ==
  [a EXCEPT !.session = NoSession,
            !.atLogout =
               [username |-> a.session.username,
                chat_history |-> IF a.session.username \in DOMAIN a.session.chat_history
                                 THEN a.session.chat_history[a.session.username]
                                 ELSE EmptyDict,
                messages |-> a.session.messages,
                current_chat_id |-> a.session.current_chat_id]]

\* perform_logout: save, delete every key, rerun (which sets the keys of a
\* fresh session again).
PerformLogout(a) ==
  [a EXCEPT !.files = SaveChatHistoryToFile(a.session, @, a.session.username),
            !.session = NoSession,
            !.atLogout =
               [username |-> a.session.username,
                chat_history |-> IF a.session.username \in DOMAIN a.session.chat_history
                                 THEN a.session.chat_history[a.session.username]
                                 ELSE EmptyDict,
                messages |-> a.session.messages,
                current_chat_id |-> a.session.current_chat_id]]

\* The Logout button (lines 257-259).
Logout ==
  /\ Authenticated
  /\ app' = PerformLogout(app)
  /\ UNCHANGED <<fsVars, pc, vs, pdfPath, at0, log, rag, observe, script, chat, emb>>

NoLogin == [username |-> NONE, password |-> NONE, stored |-> NONE]

NoRegister == [username |-> NONE, email |-> NONE, called |-> FALSE, ok |-> FALSE,
               message |-> NONE]

AppAt(config) ==
  [config |-> config, files |-> [u \in Usernames |-> NoFile], session |-> NoSession,
   now |-> 1, sends |-> 0, login |-> NoLogin, register |-> NoRegister,
   atLogout |-> NoLogout, restored |-> EmptyDict, keyError |-> FALSE]

User(email, password) == [email |-> email, name |-> "Full Name", password |-> password]

NoFrontEnd ==
  /\ dir = FALSE /\ primary = NONE /\ backup = NONE /\ lock = FALSE /\ pdf = {}
  /\ InitProcs({}) /\ observe = FALSE /\ script = NONE /\ chat = NONE /\ EmbOK

\* config.yaml with one registered user.
OneUser ==
  [usernames |-> Put(EmptyDict, "alice", User("b@x.org", "pw")),
   preauthorized |-> <<"b@x.org">>]

\* One registered user, nobody signed in, no history file.
InitSession == NoFrontEnd /\ app = AppAt(OneUser)

NextSession == Tick \/ Login \/ NewChat \/ LoadChat \/ Ask \/ Logout

\* One browser session of one user: new chats, loaded chats, questions,
\* logouts and logins.
SpecSession == InitSession /\ [][NextSession]_vars

\* A history file as an earlier session of alice left it: one chat with one
\* exchange, or one chat without messages.
EarlierFile ==
  {[exists |-> TRUE,
    data |-> Put(EmptyDict, ChatId(1),
                 [title |-> [text |-> "Chat ", n |-> 1],
                  timestamp |-> Timestamp(1),
                  messages |-> messages])] :
     messages \in {<<>>,
                   <<ToDict(ChatMessage("user", [s |-> "prompt", n |-> 1])),
                     ToDict(ChatMessage("assistant", [s |-> "final_result", n |-> 2]))>>}}

\* Nobody signed in; alice has no history file or one of an earlier session.
InitClear ==
  /\ NoFrontEnd
  /\ \E file \in EarlierFile \cup {NoFile} :
       app = [AppAt(OneUser) EXCEPT !.files["alice"] = file]

NextClear ==
  Tick \/ Login \/ NewChat \/ LoadChat \/ ClearAll \/ ClearChatHistory \/ Ask

\* One signed-in session with the two ways of clearing the history.
SpecClear == InitClear /\ [][NextClear]_vars

\* config.yaml with no user or with the administrator only.
InitAccounts ==
  /\ NoFrontEnd
  /\ \E password \in Passwords :
       app \in {AppAt([usernames |-> EmptyDict, preauthorized |-> <<>>]),
                AppAt([usernames |-> Put(EmptyDict, "admin", User("a@x.org", password)),
                       preauthorized |-> <<"a@x.org">>])}

NextAccounts == Register \/ Login \/ Logout

\* Registrations and logins in any order.
SpecAccounts == InitAccounts /\ [][NextAccounts]_vars

(***************************************************************************)
(* Properties of the index lifecycle.                                      *)
(***************************************************************************)

\* The current call of process p has taken step e.
Has(p, e) == \E i \in 1..Len(log[p]) : log[p][i] = e

\* The current call of process p has taken step a and, later, step b.
Before(p, a, b) ==
  \E i, j \in 1..Len(log[p]) : i < j /\ log[p][i] = a /\ log[p][j] = b

\* Positions between the creation of the lock marker (line 55) and the end
\* of the build pipeline (lines 58-100).
BuildSteps ==
  {"pdf_check", "ingest", "embed", "exists92", "exists94", "rmtree95",
   "copytree96", "save", "saving"}

Building(p) == pc[p] \in BuildSteps

\* The call of process p has returned or left by an exception.
Returned(p) == pc[p] = "done"

\* C1: in a single process, whatever the initial filesystem and whatever
\* step fails, the lock marker is absent once _load_vectorstore has
\* returned, and it has returned an index or None (no exception escaped).
C1_LockAbsentOnReturn ==
  \A p \in Procs : Returned(p) => ~lock /\ vs[p] \notin {UNSET, RAISED}

\* C1 witness: a call that found a stale marker, created the marker again,
\* failed inside the build and returned None.
C1_Witness ==
  \E p \in Procs :
    /\ Returned(p)
    /\ at0[p].lock
    /\ Has(p, "touch")
    /\ Has(p, "buildRaised")
    /\ vs[p] = PYNONE

\* C2 (as claimed): in a single process, when neither the primary nor the
\* backup index exists as the call begins (vectorstore/ present or not) and
\* the embedding client is ready, the call enters the build, the lock marker
\* exists at every step of the build, and it is absent once the call is over.
C2_BuildTriggeredWhenNoIndex ==
  \A p \in Procs :
    (at0[p].primary = NONE /\ at0[p].backup = NONE /\ Has(p, "embeddingsReady"))
      => /\ Building(p) => lock
         /\ Returned(p) => Has(p, "touch") /\ ~lock

\* C3: a call whose primary load raised and whose backup load succeeded has
\* returned the backup's content; it made no other step (no lock marker, no
\* build) and left the filesystem as it found it.
C3_BackupLoadedNoRebuild ==
  \A p \in Procs :
    (Has(p, "primaryRaised") /\ Has(p, "backupLoaded"))
      => /\ Returned(p)
         /\ vs[p] = at0[p].backup
         /\ log[p] = <<"embeddingsReady", "primaryRaised", "backupLoaded">>
         /\ ~at0[p].lock /\ ~lock
         /\ primary = at0[p].primary /\ backup = at0[p].backup

\* C3 witness: the primary was there without a marker, failed to load, and
\* the backup was returned.
C3_Witness ==
  \E p \in Procs :
    /\ Returned(p)
    /\ at0[p].primary = "corrupt" /\ ~at0[p].lock
    /\ Has(p, "primaryRaised") /\ Has(p, "backupLoaded")
    /\ vs[p] = "idxB"

\* C4 (as claimed): when the primary is absent as the call begins and the
\* backup exists and loads, the call returns the backup's content and does
\* not rebuild.
C4_BackupTriedWhenPrimaryAbsent ==
  \A p \in Procs :
    (/\ Returned(p)
     /\ Has(p, "embeddingsReady")
     /\ at0[p].primary = NONE
     /\ Loadable(at0[p].backup))
      => vs[p] = at0[p].backup /\ ~Has(p, "touch")

\* C5 (as claimed, the part about the primary; the part about the backup
\* fails with C4): a call is in the build only if the primary was absent or
\* failed to load, never while a loadable primary is on disk.
C5_BuildOnlyWhenPrimaryUnusable ==
  \A p \in Procs :
    pc[p] = "pdf_check"
      => /\ at0[p].primary = NONE \/ Has(p, "primaryRaised")
         /\ ~Loadable(primary)

\* C6: in a call that began with a primary on disk, the copy to the backup
\* path comes before the save begins, the save has the previous primary as
\* the backup, the lock marker is there during the save and is removed after
\* it, and a successful call leaves the previous primary as the backup and
\* the new index as the primary.
C6_BackupBeforeSave ==
  \A p \in Procs :
    at0[p].primary # NONE =>
      /\ Has(p, "save") => Before(p, "copy", "save")
      /\ pc[p] \in {"save", "saving"} => backup = at0[p].primary /\ lock
      /\ Has(p, "saved") /\ Has(p, "unlock") => Before(p, "saved", "unlock")
      /\ (Returned(p) /\ Has(p, "saved"))
           => /\ backup = at0[p].primary
              /\ primary = "built"
              /\ vs[p] = "built"
              /\ ~lock

\* C6 witness: a successful build over a primary that did not load, with a
\* prior backup that the copy replaced.
C6_Witness ==
  \E p \in Procs :
    /\ Returned(p)
    /\ Has(p, "saved") /\ vs[p] = "built"
    /\ at0[p].primary = "corrupt" /\ at0[p].backup = "idxB"
    /\ backup = "corrupt" /\ primary = "built"

C8_OneReloadOneRetry ==
  \A p \in Procs :
    rag[p].out = "ErrorInRagResponse"
      => rag[p].reloads = 1 /\ rag[p].searches = 2

\* C9: the lock marker gives no mutual exclusion: a process that has passed
\* the checks of lines 37-49 and stands at line 55 enters the build although
\* the marker exists or another process is in its build.
C9_LockDoesNotExclude ==
  \A p \in Procs :
    (pc[p] = "touch" /\ (lock \/ \E q \in Procs \ {p} : Building(q)))
      => ENABLED (TouchLock(p) /\ pc'[p] = "pdf_check")

\* C9 witness: two processes are in the build at once on a filesystem that
\* never held an index (no step removes the primary, and the backup is
\* removed only when a primary exists).
C9_BothBuilding ==
  \E p, q \in Procs :
    /\ p # q
    /\ Building(p) /\ Building(q)
    /\ primary = NONE /\ backup = NONE

\* C10 (as claimed): in every interleaving, the lock marker is present
\* whenever some process is between creating it and leaving its build.
C10_LockHeldWhileBuilding ==
  (\E p \in Procs : Building(p)) => lock

\* C12: a call that found the primary without a lock marker and loaded it has
\* returned the primary's content, having made no other step: no marker was
\* created, the backup was neither read nor replaced, the primary was not
\* rewritten, and the filesystem is as the call found it.
C12_PrimaryLoadedFrame ==
  \A p \in Procs :
    Has(p, "primaryLoaded")
      => /\ Returned(p)
         /\ at0[p].primary # NONE /\ ~at0[p].lock
         /\ vs[p] = at0[p].primary
         /\ log[p] = <<"embeddingsReady", "primaryLoaded">>
         /\ dir = at0[p].dir /\ lock = at0[p].lock
         /\ primary = at0[p].primary /\ backup = at0[p].backup

\* C12 witness: a returned call that loaded a primary lying next to a backup.
C12_Witness ==
  \E p \in Procs :
    /\ Returned(p) /\ Has(p, "primaryLoaded")
    /\ at0[p].primary = "idxA" /\ at0[p].backup = "idxB" /\ ~at0[p].lock
    /\ vs[p] = "idxA"

(***************************************************************************)
(* Properties of the rebuild script, alone and next to the application.    *)
(***************************************************************************)

\* The current run of the script has taken step e.
ScriptHas(e) == \E i \in 1..Len(script.log) : script.log[i] = e

\* The application has made its first call and the script has not run since
\* the program started, so the filesystem changed by that call only.
AppAlone(p) == script.pc = "idle" /\ Returned(p)

\* The script has returned and the application has not started.
ScriptAlone == script.pc = "done" /\ pc[1] = "idle"

\* C11, the part of _load_vectorstore: an empty chunk set gives None, no
\* save, and the primary and backup as they were.
C11_LoadVectorstorePart ==
  \A p \in Procs :
    (AppAlone(p) /\ Has(p, "noChunks"))
      => /\ vs[p] = PYNONE
         /\ ~Has(p, "save")
         /\ primary = at0[p].primary /\ backup = at0[p].backup

\* C11 (as claimed): when the chunk set is empty, _load_vectorstore returns
\* None and create_new_vectorstore returns False, neither saves an index,
\* and the primary and backup are exactly as they were before the call.
C11_EmptyChunksNothingWritten ==
  /\ C11_LoadVectorstorePart
  /\ (ScriptAlone /\ ScriptHas("noChunks"))
       => /\ script.result = PYFALSE
          /\ ~ScriptHas("save")
          /\ primary = script.at0.primary /\ backup = script.at0.backup

\* The candidate directory the claim says is ingested: Data/ if the PDF is
\* there, else data/ if it is there.
FirstExisting ==
  IF "Data" \in pdf THEN "Data" ELSE IF "data" \in pdf THEN "data" ELSE NONE

\* Positions of _load_vectorstore from the ingestion call to the save.
AppIngesting ==
  {"ingest", "exists84", "remove85", "embed", "exists92", "exists94",
   "rmtree95", "copytree96", "save", "saving", "exists104", "remove105"}

\* Positions of create_new_vectorstore from the ingestion call to the save.
ScriptIngesting == {"load", "chunk_check", "embed", "mkdir", "save", "saving"}

\* C19: both builders probe Data/ first and data/ second.  Whenever either
\* is at or past its ingestion call, the path it ingests is the first
\* existing candidate; when neither candidate exists no builder ever reaches
\* its ingestion or embedding call, a build begun by _load_vectorstore
\* returns None and create_new_vectorstore returns False.
C19_PdfCandidatesInOrder ==
  /\ \A p \in Procs :
       /\ pdfPath[p] \in {NONE, FirstExisting}
       /\ pc[p] \in AppIngesting => pdfPath[p] = FirstExisting /\ pdfPath[p] # NONE
       /\ pdf = {} => /\ pc[p] \notin AppIngesting
                      /\ ~Has(p, "ingest") /\ ~Has(p, "noChunks") /\ ~Has(p, "embed")
                      /\ (Returned(p) /\ Has(p, "touch")) => vs[p] = PYNONE
  /\ script.pdfPath \in {NONE, FirstExisting}
  /\ script.pc \in ScriptIngesting
       => script.pdfPath = FirstExisting /\ script.pdfPath # NONE
  /\ pdf = {} => /\ script.pc \notin ScriptIngesting
                 /\ ~ScriptHas("ingest") /\ ~ScriptHas("embed")
                 /\ script.pc = "done" => script.result = PYFALSE

\* C19 witness: with the PDF in both directories, the script and then the
\* application each ingested the one in Data/.
C19_Witness ==
  /\ pdf = {"Data", "data"}
  /\ script.pc = "done" /\ ScriptHas("ingest") /\ script.pdfPath = "Data"
  /\ Returned(1) /\ Has(1, "ingest") /\ pdfPath[1] = "Data"

\* With no PDF in either directory, the script returned False at line 49
\* and a build begun by the application returned None at line 66.
C19_NeitherExists ==
  /\ pdf = {}
  /\ script.pc = "done" /\ ScriptHas("noPdf") /\ script.result = PYFALSE
  /\ Returned(1) /\ Has(1, "touch") /\ vs[1] = PYNONE

\* C20: once the script has made its chunks from a PDF of N pages, there are
\* exactly N chunks, the i-th (counting from 0) is page i + 1 of the PDF and
\* carries page number i + 1, so the page numbers are exactly 1..N.
C20_OneChunkPerPage ==
  ScriptHas("ingest")
    => LET chunks == script.chunks
           N == script.pages
       IN /\ Len(chunks) = N
          /\ \A i \in 0..(N - 1) :
               chunks[i + 1].content = i + 1 /\ chunks[i + 1].page = i + 1
          /\ {chunks[j].page : j \in 1..Len(chunks)} = 1..N
          /\ \A j, k \in 1..Len(chunks) : chunks[j].page = chunks[k].page => j = k

\* C20 witness: the script indexed and saved a PDF of the largest size.
C20_Witness ==
  /\ script.pc = "done" /\ script.result = PYTRUE
  /\ ScriptHas("ingest") /\ ScriptHas("saved")
  /\ script.pages = MaxPages /\ Len(script.chunks) = MaxPages

(***************************************************************************)
(* Properties of generate_response, stated on the last call made.          *)
(***************************************************************************)

\* generate_response has been called in this session.
Called == chat.call.result # UNSET

\* str begins with pre.
StartsWith(str, pre) ==
  Len(pre) <= Len(str) /\ SubSeq(str, 1, Len(pre)) = pre

\* The retrieval of the last call gave nothing usable: no index loaded, no
\* documents found, or the search raised.
NothingUsable ==
  \/ ~chat.call.loaded
  \/ chat.call.search.kind = "raise"
  \/ chat.call.search.kind = "docs" /\ chat.call.search.docs = <<>>

\* C13: a call with show_sources = False returned a pair whose final answer
\* is exactly the direct answer, and issued no retrieval query.
C13_NoSourcesFinalIsDirect ==
  (Called /\ ~chat.call.show_sources)
    => /\ chat.call.result = "pair"
       /\ chat.call.final = chat.call.direct
       /\ chat.call.searches = 0

\* C13 witness: a call without sources on a ChatBot with a loaded index.
C13_Witness ==
  /\ Called /\ ~chat.call.show_sources /\ chat.call.loaded
  /\ chat.call.gemini = "ok"
  /\ chat.call.result = "pair" /\ chat.call.final = chat.call.direct

\* C14 (as claimed): when sources were requested and retrieval gave nothing
\* usable, the final answer is exactly the direct answer: no source block
\* and no retrieval error text is appended.
C14_NothingUsableFinalIsDirect ==
  (Called /\ chat.call.show_sources /\ NothingUsable)
    => chat.call.final = chat.call.direct

\* The part of C14 that holds: with no index loaded the final answer is the
\* direct answer.
C14_NoIndexFinalIsDirect ==
  (Called /\ chat.call.show_sources /\ ~chat.call.loaded)
    => chat.call.final = chat.call.direct

\* Page numbers of the chunks the last call retrieved.
RetrievedPages ==
  {chat.call.search.docs[i].page : i \in 1..Len(chat.call.search.docs)}

\* A token citing the page range lo to hi.
PageRange(lo, hi) == [s |-> "Pages lo-hi", n |-> lo * (MaxPages + 1) + hi]

\* Positions of the citations in the final answer of the last call.
Citations ==
  {i \in 1..Len(chat.call.final) :
     chat.call.final[i].s \in {"- source (Page page)", "Pages lo-hi"}}

\* C15 (as claimed): when sources were requested and retrieval returned a
\* nonempty result set, the final answer is the direct answer followed by a
\* source block whose citation is a single page range from the minimum to
\* the maximum page number among the retrieved chunks.
C15_SinglePageRangeCitation ==
  (Called /\ chat.call.show_sources /\ chat.call.loaded
     /\ chat.call.search.kind = "docs" /\ chat.call.search.docs # <<>>)
    => /\ StartsWith(chat.call.final, chat.call.direct)
       /\ Len(chat.call.final) > Len(chat.call.direct)
       /\ \E i \in Citations :
            /\ Citations = {i}
            /\ i > Len(chat.call.direct)
            /\ \E lo, hi \in RetrievedPages :
                 /\ \A pg \in RetrievedPages : lo <= pg /\ pg <= hi
                 /\ chat.call.final[i] = PageRange(lo, hi)

\* What the code does instead, unless a retrieved passage holds the phrase
\* of line 280: one citation per retrieved chunk, in retrieval order, each
\* with that chunk's page.
C15_OneCitationPerChunk ==
  (Called /\ chat.call.show_sources /\ chat.call.loaded
     /\ chat.call.search.kind = "docs" /\ chat.call.search.docs # <<>>
     /\ chat.call.final # chat.call.direct)
    => LET docs == chat.call.search.docs
           final == chat.call.final
       IN /\ StartsWith(final, chat.call.direct)
          /\ Cardinality(Citations) = Len(docs)
          /\ \A j \in 1..Len(docs) :
               final[Len(final) - Len(docs) + j]
                 = [s |-> "- source (Page page)", n |-> docs[j].page]

\* str is text: a nonempty sequence of tokens that is not the value that
\* stands for an exception.
IsText(str) ==
  /\ str # <<>> /\ str # Raises
  /\ \A i \in 1..Len(str) : str[i] # T(RAISED)

\* C16: whatever the generative call and the retrieval did, the call
\* returned a pair of texts; a non-200 response gave the direct answer
\* "API Error: <body>", an exception in the generative call gave the generic
\* failure text, and an exception of the search was turned into text.
C16_FailuresBecomeText ==
  Called
    => /\ chat.call.result = "pair"
       /\ IsText(chat.call.direct) /\ IsText(chat.call.final)
       /\ chat.call.gemini = "non200"
            => chat.call.direct = <<T("API Error: "), T("response.text")>>
       /\ chat.call.gemini = "raise"
            => chat.call.direct = <<T("Failed to generate response : "), T("str(e)")>>
       /\ chat.call.search.kind = "raise"
            => /\ StartsWith(chat.call.final, chat.call.direct)
               /\ chat.call.final[Len(chat.call.final) - 1] = T("Error in RAG response: ")

\* C16 witness: both the generative call and the search raised, and the call
\* returned a pair.
C16_Witness ==
  /\ Called /\ chat.call.gemini = "raise" /\ chat.call.search.kind = "raise"
  /\ chat.call.result = "pair"

\* C17: every call made exactly one generative-model call and at most one
\* similarity query, with k = 3; it made that query exactly when
\* show_sources was true and an index was loaded.
C17_OneGenerationAtMostOneSearch ==
  Called
    => /\ chat.call.genCalls = 1
       /\ chat.call.searches <= 1
       /\ chat.call.searches = 1 <=> (chat.call.show_sources /\ chat.call.loaded)
       /\ chat.call.searches = 1 => chat.call.k = K

\* C17 witness: a call with sources on a loaded index made one query.
C17_Witness ==
  /\ Called /\ chat.call.show_sources /\ chat.call.loaded
  /\ chat.call.genCalls = 1 /\ chat.call.searches = 1 /\ chat.call.k = K

\* Position in the transcript of the question of the last call: the last
\* message of the history handed in.
Question == chat.call.history[Len(chat.call.history)].n

\* The positions in the transcript of the messages in the context of the
\* last call, in the order of the context.
ContextPositions == [i \in 1..Len(chat.call.context) |-> chat.call.context[i].n]

\* The positions lo..hi, in order (empty when hi < lo).
Positions(lo, hi) == [i \in 1..(IF hi < lo THEN 0 ELSE hi - lo + 1) |-> lo + i - 1]

\* C18 (as claimed): the context of a call is the last 4 exchanges (8
\* messages) that precede the latest question, in their original order, and
\* nothing older.
C18_ContextIsLastFourExchanges ==
  Called
    => LET first == IF Question - 2 * ContextWindow < 1
                    THEN 1 ELSE Question - 2 * ContextWindow
       IN ContextPositions = Positions(first, Question - 1)

\* What the code does: the context of a call is the last 4 messages of the
\* history handed in, in their original order, each labelled by its role,
\* and nothing older; main hands in the last 5 messages of the transcript
\* with the latest question at its end, so the context is the latest
\* question preceded by the (at most) 3 messages before it.
C18_ContextIsLastFourMessages ==
  Called
    => LET first == IF Question - ContextWindow < 0
                    THEN 1 ELSE Question - ContextWindow + 1
       IN /\ ContextPositions = Positions(first, Question)
          /\ Len(chat.call.context) <= ContextWindow
          /\ Len(chat.call.history) <= HistoryWindow
          /\ \A i \in 1..Len(chat.call.context) :
               /\ chat.call.context[i].n
                    = chat.call.history[Len(chat.call.history)
                                          - Len(chat.call.context) + i].n
               /\ chat.call.context[i].label
                    = IF chat.messages[chat.call.context[i].n].role = "user"
                      THEN "User" ELSE "Assistant"

\* A question asked with more than 5 messages in the transcript: 5 were
\* handed in, 4 are in the context and the oldest message is not.
C18_WindowCuts ==
  /\ Called
  /\ Question > HistoryWindow
  /\ Len(chat.call.history) = HistoryWindow
  /\ Len(chat.call.context) = ContextWindow
  /\ chat.call.context[1].n > 1

(***************************************************************************)
(* Properties of the embedding configuration.                              *)
(***************************************************************************)

\* Process p holds an index in self.vectorstore.
HoldsIndex(p) == vs[p] \notin {UNSET, PYNONE, RAISED}

\* The embedding model of the index process p holds: that of the directory
\* it was loaded from, or, for an index built in memory at line 89, that of
\* the process's own embeddings client.
IndexModel(p) == IF emb.vs[p] # NONE THEN emb.vs[p] ELSE ChatEmbeddingModel

\* C21: the three programs name the same embedding model, every index on
\* disk was built with it, and every index a ChatBot or a VectorStore holds
\* was built with the model of the client that queries it.
C21_SameEmbeddingModel ==
  /\ ChatEmbeddingModel = ScriptEmbeddingModel
  /\ ChatEmbeddingModel = VectorStoreEmbeddingModel
  /\ emb.primary \in {NONE, ChatEmbeddingModel}
  /\ emb.backup \in {NONE, ChatEmbeddingModel}
  /\ \A p \in Procs : HoldsIndex(p) => IndexModel(p) = ChatEmbeddingModel
  /\ emb.store # NONE => emb.store = VectorStoreEmbeddingModel

\* C21 witness: the script built and saved the primary, and the application
\* and a VectorStore have both loaded it.
C21_Witness ==
  /\ script.pc = "done" /\ ScriptHas("saved")
  /\ Returned(1) /\ Has(1, "primaryLoaded") /\ vs[1] = "built"
  /\ emb.vs[1] = ScriptEmbeddingModel
  /\ emb.store = ScriptEmbeddingModel

(***************************************************************************)
(* Properties of several processes on one working directory.               *)
(***************************************************************************)

\* C22 (as claimed): a process that finds the lock marker present at the
\* test of line 37 does not start a build of its own: it is not sent on to
\* line 55, where the build path begins.
C22_LockPresentNoBuild ==
  \A p \in Procs :
    (pc[p] = "check" /\ lock)
      => ~ENABLED (CheckExisting(p) /\ pc'[p] = "touch")

\* What the code does: a process at line 37 that finds the marker goes on to
\* line 55, and from there into the build, also while another process is
\* building.
C22_LockPresentBuilds ==
  \A p \in Procs :
    /\ (pc[p] = "check" /\ lock) => ENABLED (CheckExisting(p) /\ pc'[p] = "touch")
    /\ (pc[p] = "touch" /\ dir) => ENABLED (TouchLock(p) /\ pc'[p] = "pdf_check")

\* C23 (as claimed): no process is at its load of the primary (line 39)
\* while another process is between the start and the end of its save
\* (line 100).
C23_NoLoadDuringSave ==
  \A p, q \in Procs :
    p # q => ~(pc[p] = "load_primary" /\ pc[q] = "saving")

\* C23 (amended): a process is sent to the load of the primary only by a
\* test of line 37 that finds the primary present and no lock marker; with
\* the marker present it is never sent there.  (The test and the load are
\* separate steps, so a save may begin in between.)
C23_LoadOnlyPastLockTest ==
  \A p \in Procs :
    (pc[p] = "check" /\ (lock \/ primary = NONE))
      => ~ENABLED (CheckExisting(p) /\ pc'[p] = "load_primary")

\* C23 witness: a process is about to load the primary that another process
\* has begun to save and not finished.
C23_Witness ==
  \E p, q \in Procs :
    /\ p # q
    /\ pc[p] = "load_primary" /\ pc[q] = "saving" /\ primary = "partial"

(***************************************************************************)
(* More properties of the rebuild script.                                  *)
(***************************************************************************)

\* C24 (as claimed): whenever create_new_vectorstore has returned False, a
\* primary index that was on disk before the call is still there, unchanged.
C24_FailurePreservesPrimary ==
  (ScriptAlone /\ script.result = PYFALSE /\ script.at0.primary # NONE)
    => primary = script.at0.primary

\* The part of C24 that holds: a run that returned False before line 37
\* (no API key, or the embeddings client raised) left the primary as it was.
C24_EarlyFailurePreservesPrimary ==
  (ScriptAlone /\ script.result = PYFALSE
     /\ ~ScriptHas("rmtree") /\ ~ScriptHas("cleanup"))
    => primary = script.at0.primary

(***************************************************************************)
(* Properties of the style instruction.                                    *)
(***************************************************************************)

\* The keyword groups the question matches, from the question as typed.
Group(keywords) == AnyIn(keywords, chat.prompt)

Styled == chat.calls >= 1

\* C25: the style instruction is a function of the question text alone (the
\* same question gets the same instruction again) and is exactly one of
\* none / detailed / list / definition / comparison, chosen by the priority
\* detailed > list > definition > comparison over the keyword groups the
\* question matches; a question matching no group gets the empty string.
C25_StyleByPriority ==
  Styled =>
    /\ chat.style_instruction \in
         {"", DetailedInstruction, ListInstruction, WhatIsInstruction, CompareInstruction}
    /\ (chat.style_instruction = DetailedInstruction) <=> Group(detail_keywords)
    /\ (chat.style_instruction = ListInstruction)
         <=> (~Group(detail_keywords) /\ Group(list_keywords))
    /\ (chat.style_instruction = WhatIsInstruction)
         <=> (~Group(detail_keywords) /\ ~Group(list_keywords) /\ Group(what_is_keywords))
    /\ (chat.style_instruction = CompareInstruction)
         <=> (/\ ~Group(detail_keywords) /\ ~Group(list_keywords)
              /\ ~Group(what_is_keywords) /\ Group(compare_keywords))
    /\ (chat.style_instruction = "")
         <=> (/\ ~Group(detail_keywords) /\ ~Group(list_keywords)
              /\ ~Group(what_is_keywords) /\ ~Group(compare_keywords))
    /\ (chat.calls = 2 => chat.style_instruction = chat.previous)

\* A question matching the detail, list and comparison groups at once
\* ("detailed specialist versus") has been styled twice.
C25_Witness ==
  /\ chat.calls = 2
  /\ Group(detail_keywords) /\ Group(list_keywords) /\ Group(compare_keywords)
  /\ chat.style_instruction = DetailedInstruction

(***************************************************************************)
(* Properties of the session and the accounts.                             *)
(***************************************************************************)

\* The user who logged out last is signed in again.
SameUserBack == Authenticated /\ app.atLogout.username = app.session.username

C27_CurrentChatIsKey ==
  Authenticated
    => /\ app.session.current_chat_id # NoChatId
            => /\ app.session.username \in DOMAIN app.session.chat_history
               /\ app.session.current_chat_id
                    \in DOMAIN app.session.chat_history[app.session.username]
       /\ ~SaveRaisesKeyError(app.session)
       /\ ~app.keyError

\* A chat loaded at login has been cleared away, and the current chat has
\* been saved with an exchange since.
C27_Witness ==
  /\ Authenticated
  /\ ChatId(1) \in DOMAIN app.restored
  /\ ChatId(1) \notin DOMAIN app.session.chat_history[app.session.username]
  /\ app.session.current_chat_id # NoChatId
  /\ Len(app.session.messages) >= 2
  /\ app.files[app.session.username].data
       = HistoryDict(app.session.chat_history[app.session.username])

\* No two registered users have the same email (usernames are the keys of
\* the configuration, so they cannot repeat).
UniqueEmails ==
  \A u, v \in DOMAIN app.config.usernames :
    u # v => app.config.usernames[u].email # app.config.usernames[v].email

\* A step keeps every stored user record, and a call of register_user whose
\* username or email was taken has failed and left the configuration alone.
RegistrationStep ==
  LET before == app.config.usernames
      r == app'.register
  IN /\ \A u \in DOMAIN before :
          u \in DOMAIN app'.config.usernames /\ app'.config.usernames[u] = before[u]
     /\ (/\ r # app.register
         /\ r.called
         /\ \/ r.username \in DOMAIN before
            \/ \E u \in DOMAIN before : before[u].email = r.email)
          => (~r.ok /\ app'.config = app.config)
     /\ (r # app.register /\ r.ok)
          => /\ r.username \notin DOMAIN before
             /\ DOMAIN app'.config.usernames = DOMAIN before \cup {r.username}

\* C28: register_user never changes an existing user's record; a call with
\* a taken username or a registered email fails and leaves the configuration
\* unchanged; so no two registered users share a username or an email.
C28_RegisterNeverOverwrites == []UniqueEmails /\ [][RegistrationStep]_vars

\* A registration has been refused for its email, with two users registered.
C28_Witness ==
  /\ app.register.called /\ ~app.register.ok
  /\ app.register.message = "Email already registered"
  /\ app.register.username \notin DOMAIN app.config.usernames
  /\ Cardinality(DOMAIN app.config.usernames) = 2

\* C29 (as claimed): the session is signed in only after a login whose
\* username is stored and whose password equals the password stored for it;
\* otherwise it is not signed in and holds no chat history.
C29_LoginOnlyWithStoredPassword ==
  /\ Authenticated
       => /\ app.login.username = app.session.username
          /\ app.login.username \in DOMAIN app.config.usernames
          /\ app.login.password = app.config.usernames[app.login.username].password
  /\ ~Authenticated => app.session = NoSession

\* What the code guarantees: the password is the stored one, or the pair is
\* admin / admin whatever password is stored for admin.
C29_StoredPasswordOrAdminAdmin ==
  /\ Authenticated
       => /\ app.login.username = app.session.username
          /\ app.login.username \in DOMAIN app.config.usernames
          /\ \/ app.login.password = app.config.usernames[app.login.username].password
             \/ app.login.username = "admin" /\ app.login.password = "admin"
  /\ ~Authenticated => app.session = NoSession

\* Signed in as admin with a password that is not the stored one.
C29_AdminBackDoor ==
  /\ Authenticated
  /\ app.login.username = "admin"
  /\ app.login.password # app.config.usernames["admin"].password

====
